---- MODULE Spec2Model ----
(***************************************************************************)
(* Model of the backtest engine of crypto_trading_bot                      *)
(* (src/backtesting/backtester.py): class Backtester, its constructor,     *)
(* the bar loop of run() and the total return of stats().                  *)
(*                                                                         *)
(* Prices, cash, equity values and returns are Python floats in the code;  *)
(* here they are exact rationals [n |-> numerator, d |-> denominator] in   *)
(* lowest terms with d > 0, so every formula below is about the            *)
(* arithmetic the code writes down, not about float rounding.              *)
(* The index of the close series is the bar number 1..Len(close)           *)
(* (strictly increasing timestamps); a date is a bar number.               *)
(***************************************************************************)
EXTENDS Integers, Sequences, FiniteSets, TLC

\* ------------------------------------------------------------------ bounds
\* longest close series enumerated
MaxBars == 4

\* default init_cash of Backtester.__init__
DefaultInitCash == 10000

\* ------------------------------------------------------------- rationals
Abs(x) == IF x < 0 THEN -x ELSE x

RECURSIVE Gcd(_, _)
Gcd(a, b) == IF b = 0 THEN a ELSE Gcd(b, a % b)

\* the float n/d, in lowest terms
Rat(n, d) ==
    LET g == Gcd(Abs(n), Abs(d))
        s == IF d < 0 THEN -1 ELSE 1
    IN  [n |-> (s * n) \div g, d |-> (s * d) \div g]

Num(k) == Rat(k, 1)
RAdd(x, y) == Rat(x.n * y.d + y.n * x.d, x.d * y.d)
RSub(x, y) == Rat(x.n * y.d - y.n * x.d, x.d * y.d)
RMul(x, y) == Rat(x.n * y.n, x.d * y.d)
RDiv(x, y) == Rat(x.n * y.d, x.d * y.n)
RLe(x, y) == x.n * y.d <= y.n * x.d
RLt(x, y) == x.n * y.d < y.n * x.d

\* Python's None, and a value that is not None
None == << >>
Some(x) == << x >>
Val(o) == o[1]

\* ------------------------------------------------------------------ inputs
\* closing prices of the enumerated series
Prices == {Num(100), Num(110)}
\* fee and slippage values of the enumerated configurations
Fees == {Num(0), Rat(1, 2)}
Slippages == {Num(0), Rat(1, 2), Rat(3, 2)}

SeqsUpTo(S, n) == UNION {[1..k -> S] : k \in 0..n}

VARIABLES
    close, entries, exits,      \* self.close, self.entries, self.exits
    fee, slippage, init_cash,   \* self.fee, self.slippage, self.init_cash
    equity, trades,             \* self.equity, self.trades
    pc,                         \* "new": constructed; "loop": in run(); "done": run() returned
    i,                          \* bars processed so far by the loop of run()
    cash, position, entry_price, entry_date, equity_curve,  \* locals of run()
    entries_taken,              \* history: number of times the entry branch ran
    arg,                        \* the entries and exits Series the caller passed
    error,                      \* the exception that ended the call, or None
    reruns,                     \* run() calls on this Backtester after the first
    stats_out,                  \* what stats() returned, or None
    df, timeframe, resampled,   \* resample_ohlcv: its arguments and its result
    strat, consumer,            \* the strategy called and the caller that reads its output
    strategy_out,               \* the dict the strategy returned, or None
    result,                     \* what the caller made of it, or None
    last_processed_bar,         \* run_bot._last_processed_bar
    closed_bars,                \* the number of bars closed at the exchange so far
    evaluated, orders,          \* history: strategy evaluations, orders created at the venue
    last_run,                   \* history: how the last run_strategy call went, or None
    best_file,                  \* the content of best_params.json
    writers,                    \* the record_best calls in progress, one per caller
    recorded                    \* history: the record_best calls that returned, in order

vars == <<close, entries, exits, fee, slippage, init_cash, equity, trades, pc, i,
          cash, position, entry_price, entry_date, equity_curve, entries_taken,
          arg, error, reruns, stats_out, df, timeframe, resampled,
          strat, consumer, strategy_out, result,
          last_processed_bar, closed_bars, evaluated, orders, last_run, best_file, writers,
          recorded>>

\* a pandas Series: its index and its values, row by row
Series(index, values) == [index |-> index, values |-> values]

\* the index of the close series: the bar numbers
CloseIndex(c) == [k \in 1..Len(c) |-> k]

\* boolean signals as a Series on the index of the close series
Aligned(c, sig) == Series(CloseIndex(c), [k \in 1..Len(sig) |-> Some(sig[k])])

\* no Backtester call has raised, run() ran at most once, stats() was not called
BacktesterOnly ==
    /\ error = None
    /\ reruns = 0
    /\ stats_out = None

\* resample_ohlcv is not in use
NoResample ==
    /\ df = << >>
    /\ timeframe = "1m"
    /\ resampled = None

\* the state of the trading bot
Bot == <<last_processed_bar, closed_bars, evaluated, orders, last_run>>

\* the bot is not running
NoBot ==
    /\ last_processed_bar = None
    /\ closed_bars = 0
    /\ evaluated = << >>
    /\ orders = << >>
    /\ last_run = None

\* the best-parameters file and its writers
Store == <<best_file, writers, recorded>>

\* nobody records parameters
NoStore ==
    /\ best_file = None
    /\ writers = << >>
    /\ recorded = << >>

\* the state outside the backtesting package
Live == <<strat, consumer, strategy_out, result, Bot, Store>>

\* nothing outside the backtesting package is in use
NoLive ==
    /\ strat = "sma"
    /\ consumer = "loader"
    /\ strategy_out = None
    /\ result = None
    /\ NoBot
    /\ NoStore

\* what a step of run() leaves alone besides self.equity and the inputs
Others == <<arg, error, reruns, stats_out, df, timeframe, resampled, Live>>

\* ------------------------------------------------------------ constructor
\* Backtester.__init__ on index-aligned boolean signals
Init ==
    /\ close \in SeqsUpTo(Prices, MaxBars)
    /\ entries \in [1..Len(close) -> BOOLEAN]
    /\ exits \in [1..Len(close) -> BOOLEAN]
    /\ fee \in Fees
    /\ slippage \in Slippages
    /\ init_cash = Num(DefaultInitCash)
    /\ equity = None
    /\ trades = << >>
    /\ pc = "new"
    /\ i = 0
    /\ cash = None
    /\ position = None
    /\ entry_price = None
    /\ entry_date = None
    /\ equity_curve = None
    /\ entries_taken = 0
    /\ arg = [entries |-> Aligned(close, entries), exits |-> Aligned(close, exits)]
    /\ BacktesterOnly
    /\ NoLive
    /\ NoResample

\* ------------------------------------------------------------------ run()
\* the locals of run() and the trade log, as one record
Locals ==
    [cash |-> cash, position |-> position, entry_price |-> entry_price,
     entry_date |-> entry_date, equity_curve |-> equity_curve, trades |-> trades]

\* the locals as run() sets them before the loop
StartLocals(ic, tr) ==
    [cash |-> ic, position |-> 0, entry_price |-> None, entry_date |-> None,
     equity_curve |-> << >>, trades |-> tr]

\* additive fee: pnl - fee_cost
PnlAfterFeeAdditive(price, ep, f, s) ==
    RSub(RDiv(RSub(price, ep), ep), RAdd(f, s))

\* fee credited instead of charged: (1 + pnl) * (1 + fee_cost) - 1
PnlAfterFeeCredited(price, ep, f, s) ==
    RSub(RMul(RAdd(Num(1), RDiv(RSub(price, ep), ep)), RAdd(Num(1), RAdd(f, s))), Num(1))

\* pnl_after_fee of a round trip entered at ep and left at price
PnlAfterFee(price, ep, f, s) ==
    LET pnl == RDiv(RSub(price, ep), ep)
        fee_cost == RAdd(f, s)
    IN  RSub(RMul(RAdd(Num(1), pnl), RSub(Num(1), fee_cost)), Num(1))

ExitCond(st, ex) == st.position > 0 /\ ex
EntryCond(st, ex, en) == ~ExitCond(st, ex) /\ st.position = 0 /\ en

\* the exit branch without the append to self.trades
ExitBranchNoRecord(st, price, date, f, s) ==
    LET pnl_after_fee == PnlAfterFee(price, Val(st.entry_price), f, s)
    IN  [st EXCEPT
            !.cash = RMul(@, RAdd(Num(1), pnl_after_fee)),
            !.position = 0,
            !.entry_price = None,
            !.entry_date = None]

\* the exit branch
ExitBranch(st, price, date, f, s) ==
    LET pnl_after_fee == PnlAfterFee(price, Val(st.entry_price), f, s)
    IN  [st EXCEPT
            !.cash = RMul(@, RAdd(Num(1), pnl_after_fee)),
            !.trades = Append(@, [entry_date |-> Val(st.entry_date),
                                  exit_date |-> date,
                                  entry_price |-> Val(st.entry_price),
                                  exit_price |-> price,
                                  return |-> pnl_after_fee]),
            !.position = 0,
            !.entry_price = None,
            !.entry_date = None]

\* entry that pays the fee at once: cash *= (1 - fee)
EntryBranchFee(st, price, date, f) ==
    [st EXCEPT !.position = 1, !.entry_price = Some(price), !.entry_date = Some(date),
               !.cash = RMul(@, RSub(Num(1), f))]

\* the entry branch
EntryBranch(st, price, date, f) ==
    [st EXCEPT !.position = 1, !.entry_price = Some(price), !.entry_date = Some(date)]

\* equity valued at cash whatever the position
MarkCashOnly(st, price) == st.cash

\* the open position valued at entry_price / price
MarkInverted(st, price) ==
    IF st.position = 0 THEN st.cash
    ELSE RMul(st.cash, RDiv(Val(st.entry_price), price))

\* this bar's equity value
Mark(st, price) ==
    IF st.position = 0 THEN st.cash
    ELSE RMul(st.cash, RDiv(price, Val(st.entry_price)))

\* the transition of one bar, before the equity value is appended
Transition(st, price, date, ex, en, f, s) ==
    IF ExitCond(st, ex) THEN ExitBranch(st, price, date, f, s)
    ELSE IF EntryCond(st, ex, en) THEN EntryBranch(st, price, date, f)
    ELSE st

\* exit and entry as two independent ifs: a bar can close and reopen
IterationReenter(st, price, date, ex, en, f, s) ==
    LET s1 == IF ExitCond(st, ex) THEN ExitBranch(st, price, date, f, s) ELSE st
        s2 == IF s1.position = 0 /\ en THEN EntryBranch(s1, price, date, f) ELSE s1
    IN  [s2 EXCEPT !.equity_curve = Append(@, Mark(s2, price))]

\* the entry branch does not look at the position
IterationPyramid(st, price, date, ex, en, f, s) ==
    LET s1 == IF ExitCond(st, ex) THEN ExitBranch(st, price, date, f, s)
              ELSE IF en THEN EntryBranch(st, price, date, f)
              ELSE st
    IN  [s1 EXCEPT !.equity_curve = Append(@, Mark(s1, price))]

\* no equity value on a bar without a transition
IterationSkipHold(st, price, date, ex, en, f, s) ==
    LET s1 == Transition(st, price, date, ex, en, f, s)
    IN  IF ExitCond(st, ex) \/ EntryCond(st, ex, en)
        THEN [s1 EXCEPT !.equity_curve = Append(@, Mark(s1, price))]
        ELSE s1

\* the entry branch tried first, then the exit branch, as two independent ifs
IterationEntryFirst(st, price, date, ex, en, f, s) ==
    LET s1 == IF st.position = 0 /\ en THEN EntryBranch(st, price, date, f) ELSE st
        s2 == IF ExitCond(s1, ex) THEN ExitBranch(s1, price, date, f, s) ELSE s1
    IN  [s2 EXCEPT !.equity_curve = Append(@, Mark(s2, price))]

\* one iteration of the loop of run()
Iteration(st, price, date, ex, en, f, s) ==
    LET s1 == Transition(st, price, date, ex, en, f, s)
    IN  [s1 EXCEPT !.equity_curve = Append(@, Mark(s1, price))]

\* the loop of run() from bar k on, under fee f and slippage s
RECURSIVE RunLoop(_, _, _, _)
RunLoop(st, k, f, s) ==
    IF k > Len(close) THEN st
    ELSE RunLoop(Iteration(st, close[k], k, exits[k], entries[k], f, s), k + 1, f, s)

\* total_return of stats()
TotalReturn(eq, ic) == RSub(RDiv(eq[Len(eq)], ic), Num(1))

\* the locals and the trade log become st
Commit(st) ==
    /\ cash' = st.cash
    /\ position' = st.position
    /\ entry_price' = st.entry_price
    /\ entry_date' = st.entry_date
    /\ equity_curve' = st.equity_curve
    /\ trades' = st.trades

Inputs == <<close, entries, exits, fee, slippage, init_cash>>

\* run() is called: the locals are set
Start ==
    /\ pc = "new"
    /\ pc' = "loop"
    /\ Commit(StartLocals(init_cash, trades))
    /\ UNCHANGED <<Inputs, Others, equity, i, entries_taken>>

\* the bar i + 1 of the loop
Bar ==
    /\ Commit(Iteration(Locals, close[i + 1], i + 1, exits[i + 1], entries[i + 1],
                        fee, slippage))
    /\ entries_taken' = entries_taken +
            (IF entry_date' # None /\ entry_date' # entry_date THEN 1 ELSE 0)

\* a bar on which the position is closed
ExitBar ==
    /\ pc = "loop"
    /\ i < Len(close)
    /\ ExitCond(Locals, exits[i + 1])
    /\ Bar
    /\ i' = i + 1
    /\ UNCHANGED <<Inputs, Others, equity, pc>>

\* a bar on which a position is opened
EntryBar ==
    /\ pc = "loop"
    /\ i < Len(close)
    /\ EntryCond(Locals, exits[i + 1], entries[i + 1])
    /\ Bar
    /\ i' = i + 1
    /\ UNCHANGED <<Inputs, Others, equity, pc>>

\* a bar without a transition
HoldBar ==
    /\ pc = "loop"
    /\ i < Len(close)
    /\ ~ExitCond(Locals, exits[i + 1])
    /\ ~EntryCond(Locals, exits[i + 1], entries[i + 1])
    /\ Bar
    /\ i' = i + 1
    /\ UNCHANGED <<Inputs, Others, equity, pc>>

\* the loop is over and a position still open is closed at the last price
FinishForceClose ==
    /\ pc = "loop"
    /\ i = Len(close)
    /\ LET st == IF position = 1
                 THEN ExitBranch(Locals, close[i], i, fee, slippage)
                 ELSE Locals
       IN  /\ Commit(st)
           /\ equity' = Some(st.equity_curve)
    /\ pc' = "done"
    /\ UNCHANGED <<Inputs, Others, i, entries_taken>>

\* the loop is over: self.equity is set and run() returns
Finish ==
    /\ pc = "loop"
    /\ i = Len(close)
    /\ equity' = Some(equity_curve)
    /\ pc' = "done"
    /\ UNCHANGED <<Inputs, Others, trades, i, cash, position, entry_price, entry_date,
                   equity_curve, entries_taken>>

Next == Start \/ ExitBar \/ EntryBar \/ HoldBar \/ Finish

Spec == Init /\ [][Next]_vars

TypeOK ==
    /\ pc \in {"new", "loop", "done"}
    /\ i \in 0..Len(close)
    /\ pc # "new" => position \in {0, 1}

\* a Backtester as __init__ leaves it, run() not yet called
Fresh ==
    /\ equity = None
    /\ trades = << >>
    /\ pc = "new"
    /\ i = 0
    /\ cash = None
    /\ position = None
    /\ entry_price = None
    /\ entry_date = None
    /\ equity_curve = None
    /\ entries_taken = 0

\* ------------------------------------------------ the worked example (spec 8)
ExampleClose == <<Num(100), Num(110), Num(100), Num(90)>>
ExampleEntries == <<TRUE, FALSE, FALSE, FALSE>>
ExampleExits == <<FALSE, FALSE, TRUE, FALSE>>
ExamplePrices == {ExampleClose[k] : k \in DOMAIN ExampleClose}

\* Backtester.__init__ on the series of the example's length over its prices,
\* fee 0 and slippage 0
InitExample ==
    /\ close \in [DOMAIN ExampleClose -> ExamplePrices]
    /\ entries \in [DOMAIN close -> BOOLEAN]
    /\ exits \in [DOMAIN close -> BOOLEAN]
    /\ fee = Num(0)
    /\ slippage = Num(0)
    /\ init_cash = Num(DefaultInitCash)
    /\ Fresh
    /\ arg = [entries |-> Aligned(close, entries), exits |-> Aligned(close, exits)]
    /\ BacktesterOnly
    /\ NoLive
    /\ NoResample

SpecExample == InitExample /\ [][Next]_vars

\* ------------------------------------------- signals that are not aligned
\* NaN as True: the signal values left as they are, NaN being truthy
FillNaTruthy(values) ==
    [k \in DOMAIN values |-> IF values[k] = None THEN TRUE ELSE Val(values[k])]

\* Series.fillna(False): the values, with False for a missing one
FillNa(values) ==
    [k \in DOMAIN values |-> IF values[k] = None THEN FALSE ELSE Val(values[k])]

\* the index of a signal Series: the bar numbers, or every label one bar later
SignalIndexes(n) == {[k \in 1..n |-> k], [k \in 1..n |-> k + 1]}

\* the boolean signal Series of up to MaxBars rows
BoolSeries ==
    UNION {{Series(ix, [k \in 1..n |-> Some(b[k])]) :
                ix \in SignalIndexes(n), b \in [1..n -> BOOLEAN]} : n \in 0..MaxBars}

\* Backtester.__init__ on a non-empty close series and signal Series of any length
\* and index, fee 0, slippage 0
InitUnaligned ==
    /\ close \in SeqsUpTo(Prices, MaxBars) \ {<< >>}
    /\ arg \in [entries : BoolSeries, exits : BoolSeries]
    /\ entries = FillNa(arg.entries.values)
    /\ exits = FillNa(arg.exits.values)
    /\ fee = Num(0)
    /\ slippage = Num(0)
    /\ init_cash = Num(DefaultInitCash)
    /\ Fresh
    /\ BacktesterOnly
    /\ NoLive
    /\ NoResample

\* bar i + 1 reads a signal by position (.iloc[i]) past the end of its Series:
\* exits is read while LONG, entries while FLAT
RaisesIndexError ==
    /\ pc = "loop"
    /\ i < Len(close)
    /\ \/ position > 0 /\ i + 1 > Len(exits)
       \/ position = 0 /\ i + 1 > Len(entries)

\* run() ends with the IndexError of .iloc: self.equity is not set
SignalIndexError ==
    /\ RaisesIndexError
    /\ pc' = "raised"
    /\ error' = Some("IndexError")
    /\ UNCHANGED <<Inputs, Live, arg, reruns, stats_out, df, timeframe, resampled, equity,
                   trades, i, cash, position, entry_price, entry_date, equity_curve,
                   entries_taken>>

\* bar i + 1 when its signal reads are in range
PositionalBar == ~RaisesIndexError /\ (ExitBar \/ EntryBar \/ HoldBar)

NextUnaligned == Start \/ PositionalBar \/ SignalIndexError \/ Finish

SpecUnaligned == InitUnaligned /\ [][NextUnaligned]_vars

\* ---------------------------------------------------------------- stats()
RMax(x, y) == IF RLe(x, y) THEN y ELSE x
RMin(x, y) == IF RLe(x, y) THEN x ELSE y

\* sum of the rationals seq[1..k]
RECURSIVE RSum(_, _)
RSum(seq, k) == IF k = 0 THEN Num(0) ELSE RAdd(RSum(seq, k - 1), seq[k])

\* Series.min() of the non-empty seq[1..k]
RECURSIVE MinOf(_, _)
MinOf(seq, k) == IF k = 1 THEN seq[1] ELSE RMin(MinOf(seq, k - 1), seq[k])

\* Series.cummax() at row k
RECURSIVE CumMax(_, _)
CumMax(eq, k) == IF k = 1 THEN eq[1] ELSE RMax(CumMax(eq, k - 1), eq[k])

\* self.equity.pct_change().fillna(0): row 1 and 0 / 0 are NaN, filled with 0
PctChange(eq) ==
    [k \in DOMAIN eq |->
        IF k = 1 THEN Num(0)
        ELSE IF eq[k - 1] = Num(0) /\ eq[k] = Num(0) THEN Num(0)
        ELSE RSub(RDiv(eq[k], eq[k - 1]), Num(1))]

\* sharpe, up to its positive factors: "nan" when returns.std() is NaN (one row,
\* ddof = 1), else the sign of returns.mean(), the divisor std + 1e-9 being positive
Sharpe(returns) ==
    IF Len(returns) < 2 THEN "nan"
    ELSE LET total == RSum(returns, Len(returns))
         IN  IF total = Num(0) THEN "zero"
             ELSE IF RLt(Num(0), total) THEN "positive" ELSE "negative"

\* drawdown measured from the first equity value instead of the running maximum
MaxDrawdownFromStart(eq) ==
    MinOf([k \in DOMAIN eq |-> RSub(RDiv(eq[k], eq[1]), Num(1))], Len(eq))

\* max_dd of stats(): (equity / equity.cummax() - 1).min()
MaxDrawdown(eq) ==
    MinOf([k \in DOMAIN eq |-> RSub(RDiv(eq[k], CumMax(eq, k)), Num(1))], Len(eq))

\* max_dd of calculate_metrics, in percent: ((equity - running_max) / running_max).min() * 100
MetricsMaxDrawdown(eq) ==
    RMul(MinOf([k \in DOMAIN eq |-> RDiv(RSub(eq[k], CumMax(eq, k)), CumMax(eq, k))],
               Len(eq)),
         Num(100))

\* the returns of the trade log
Returns(tr) == [k \in DOMAIN tr |-> tr[k].return]

\* a trade with return 0 counted as a win
WinRateNonNegative(tr) ==
    IF tr = << >> THEN Num(0)
    ELSE Rat(Cardinality({k \in DOMAIN tr : RLe(Num(0), tr[k].return)}), Len(tr))

\* win_rate of stats()
WinRate(tr) ==
    IF tr = << >> THEN Num(0)
    ELSE Rat(Cardinality({k \in DOMAIN tr : RLt(Num(0), tr[k].return)}), Len(tr))

\* the returns above 0, the others as 0
PositiveReturns(tr) ==
    [k \in DOMAIN tr |-> IF RLt(Num(0), tr[k].return) THEN tr[k].return ELSE Num(0)]

\* the returns below 0, the others as 0
NegativeReturns(tr) ==
    [k \in DOMAIN tr |-> IF RLt(tr[k].return, Num(0)) THEN tr[k].return ELSE Num(0)]

\* the sum of all returns over the losses
ProfitFactorNet(tr) ==
    IF tr = << >> THEN Num(0)
    ELSE LET losses == RSum(NegativeReturns(tr), Len(tr))
             divisor == IF losses = Num(0) THEN Num(1) ELSE losses
         IN  RDiv(RSum(Returns(tr), Len(tr)), Rat(Abs(divisor.n), divisor.d))

\* profit_factor of stats(): sum(positive) / abs(sum(negative) or 1)
ProfitFactor(tr) ==
    IF tr = << >> THEN Num(0)
    ELSE LET losses == RSum(NegativeReturns(tr), Len(tr))
             divisor == IF losses = Num(0) THEN Num(1) ELSE losses
         IN  RDiv(RSum(PositiveReturns(tr), Len(tr)), Rat(Abs(divisor.n), divisor.d))

\* the record stats() returns
StatsRecord ==
    [total_return |-> TotalReturn(Val(equity), init_cash),
     sharpe |-> Sharpe(PctChange(Val(equity))),
     max_dd |-> MaxDrawdown(Val(equity)),
     win_rate |-> WinRate(trades),
     profit_factor |-> ProfitFactor(trades),
     trades |-> Len(trades),
     trade_log |-> trades]

\* what stats() leaves alone
StatsFrame ==
    <<Inputs, Live, arg, reruns, df, timeframe, resampled, equity, trades, i, cash, position,
      entry_price, entry_date, equity_curve, entries_taken>>

\* stats() before run(): ValueError
StatsNotRun ==
    /\ pc = "new"
    /\ equity = None
    /\ pc' = "raised"
    /\ error' = Some("ValueError")
    /\ UNCHANGED <<StatsFrame, stats_out>>

\* stats() after run() on an empty series: self.equity.iloc[-1] raises IndexError
StatsEmpty ==
    /\ pc = "done"
    /\ Val(equity) = << >>
    /\ pc' = "raised"
    /\ error' = Some("IndexError")
    /\ UNCHANGED <<StatsFrame, stats_out>>

\* stats() after run()
Stats ==
    /\ pc = "done"
    /\ Val(equity) # << >>
    /\ stats_out' = Some(StatsRecord)
    /\ pc' = "reported"
    /\ UNCHANGED <<StatsFrame, error>>

NextStats == Next \/ StatsNotRun \/ StatsEmpty \/ Stats

SpecStats == Init /\ [][NextStats]_vars

\* ------------------------------------------------------------ run() again
MaxReruns == 1

\* run() is called on an object that has run: the locals are set anew, self.trades is
\* the list the earlier run filled
Rerun ==
    /\ pc \in {"done", "reported"}
    /\ reruns < MaxReruns
    /\ reruns' = reruns + 1
    /\ pc' = "loop"
    /\ i' = 0
    /\ Commit(StartLocals(init_cash, trades))
    /\ UNCHANGED <<Inputs, Live, arg, error, stats_out, df, timeframe, resampled, equity,
                   entries_taken>>

NextRerun == NextStats \/ Rerun

SpecRerun == Init /\ [][NextRerun]_vars

\* ------------------------------------------------ signals with missing values
\* longest series enumerated with missing signal values
MaxNaNBars == 3

\* signal values as the caller may pass them: True, False or missing (NaN / None)
RawSignals == {Some(TRUE), Some(FALSE), None}

\* the caller is about to construct a Backtester: self.entries, self.exits unset
InitNaN ==
    /\ close \in SeqsUpTo(Prices, MaxNaNBars)
    /\ arg \in [entries : {Series(CloseIndex(close), v) : v \in [1..Len(close) -> RawSignals]},
                 exits : {Series(CloseIndex(close), v) : v \in [1..Len(close) -> RawSignals]}]
    /\ entries = None
    /\ exits = None
    /\ fee \in Fees
    /\ slippage = Num(0)
    /\ init_cash = Num(DefaultInitCash)
    /\ equity = None
    /\ trades = << >>
    /\ pc = "call"
    /\ i = 0
    /\ cash = None
    /\ position = None
    /\ entry_price = None
    /\ entry_date = None
    /\ equity_curve = None
    /\ entries_taken = 0
    /\ BacktesterOnly
    /\ NoLive
    /\ NoResample

\* Backtester.__init__: the signals are stored with fillna(False)
Construct ==
    /\ pc = "call"
    /\ entries' = FillNa(arg.entries.values)
    /\ exits' = FillNa(arg.exits.values)
    /\ pc' = "new"
    /\ UNCHANGED <<close, fee, slippage, init_cash, Others, equity, trades, i, cash,
                   position, entry_price, entry_date, equity_curve, entries_taken>>

NextNaN == Construct \/ Next

SpecNaN == InitNaN /\ [][NextNaN]_vars

\* the loop of run() over close series c and signals en, ex, from bar k on
RECURSIVE RunLoopOn(_, _, _, _, _, _, _)
RunLoopOn(c, en, ex, st, k, f, s) ==
    IF k > Len(c) THEN st
    ELSE RunLoopOn(c, en, ex, Iteration(st, c[k], k, ex[k], en[k], f, s), k + 1, f, s)

\* ----------------------------------------------- configurations of any sign
\* fee and slippage values, a negative one included
SignedCosts == {Rat(-1, 2), Num(0), Rat(1, 2)}
\* init_cash values, zero and a negative one included
SignedCash == {Num(-DefaultInitCash), Num(0), Num(DefaultInitCash)}

\* Backtester.__init__ on a non-empty close series, aligned boolean signals and
\* any fee, slippage, init_cash
InitConfig ==
    /\ close \in SeqsUpTo(Prices, MaxBars) \ {<< >>}
    /\ entries \in [1..Len(close) -> BOOLEAN]
    /\ exits \in [1..Len(close) -> BOOLEAN]
    /\ fee \in SignedCosts
    /\ slippage \in SignedCosts
    /\ init_cash \in SignedCash
    /\ Fresh
    /\ arg = [entries |-> Aligned(close, entries), exits |-> Aligned(close, exits)]
    /\ BacktesterOnly
    /\ NoLive
    /\ NoResample

SpecConfig == InitConfig /\ [][Next]_vars

\* -------------------------------------------------------- resample_ohlcv
MaxRows == 3
MaxMinute == 6

REQUIRED_COLS == {"open", "high", "low", "close", "volume"}

\* timestamps of one-minute bars, in minutes after midnight
Minutes == 0..MaxMinute

\* the values of a one-minute bar
BarValues ==
    {[open |-> 1, high |-> 4, low |-> 1, close |-> 3, volume |-> 10],
     [open |-> 3, high |-> 5, low |-> 2, close |-> 4, volume |-> 20]}

Timeframes == {"1m", "2m", "5m"}

\* a row of the frame: the index value and the five columns
Row(ts, b) ==
    [ts |-> ts, open |-> b.open, high |-> b.high, low |-> b.low, close |-> b.close,
     volume |-> b.volume]

\* frames of n rows in any row order, one row per timestamp
RECURSIVE FramesOfLen(_)
FramesOfLen(n) ==
    IF n = 0 THEN {<< >>}
    ELSE {Append(x[1], Row(x[2], x[3])) :
            x \in {y \in FramesOfLen(n - 1) \X Minutes \X BarValues :
                      \A k \in DOMAIN y[1] : y[1][k].ts # y[2]}}

\* frames of up to n rows
FramesUpTo(n) == UNION {FramesOfLen(k) : k \in 0..n}

\* resample_ohlcv is about to be called on a one-minute OHLCV frame
InitResample ==
    /\ df \in {[columns |-> REQUIRED_COLS, temporal |-> TRUE, rows |-> r] : r \in FramesUpTo(MaxRows)}
    /\ timeframe \in Timeframes
    /\ resampled = None
    /\ pc = "resample"
    /\ close = << >>
    /\ entries = << >>
    /\ exits = << >>
    /\ fee = Num(0)
    /\ slippage = Num(0)
    /\ init_cash = Num(DefaultInitCash)
    /\ equity = None
    /\ trades = << >>
    /\ i = 0
    /\ cash = None
    /\ position = None
    /\ entry_price = None
    /\ entry_date = None
    /\ equity_curve = None
    /\ entries_taken = 0
    /\ arg = [entries |-> Aligned(close, entries), exits |-> Aligned(close, exits)]
    /\ BacktesterOnly
    /\ NoLive

\* ensure_ohlcv passes: no required column is missing and the index is a DatetimeIndex
EnsureOhlcv(d) == REQUIRED_COLS \ d.columns = {} /\ d.temporal

\* df.sort_index(): the rows by ascending timestamp
RECURSIVE SortIndex(_)
SortIndex(rows) ==
    IF rows = << >> THEN << >>
    ELSE LET m == CHOOSE k \in DOMAIN rows : \A j \in DOMAIN rows : rows[k].ts <= rows[j].ts
         IN  <<rows[m]>> \o SortIndex(SubSeq(rows, 1, m - 1) \o SubSeq(rows, m + 1, Len(rows)))

\* _to_pandas_freq: the width of the timeframe, in minutes
ToPandasFreq(tf) ==
    CASE tf = "1m" -> 1
      [] tf = "2m" -> 2
      [] tf = "5m" -> 5

\* windows closed on the left: a bar on a boundary opens the next window
LabelLeftClosed(ts, w) == (ts \div w + 1) * w

\* label="right", closed="right": the end of the window (T - w, T] that holds ts
Label(ts, w) == ((ts + w - 1) \div w) * w

\* the labels of the bins of resample(): every window from the first row's to the last's
BinLabels(rows, w) ==
    IF rows = << >> THEN << >>
    ELSE LET lo == Label(rows[1].ts, w)
             hi == Label(rows[Len(rows)].ts, w)
         IN  [k \in 1..((hi - lo) \div w + 1) |-> lo + (k - 1) * w]

\* the sum of column volume over bin[1..k]
RECURSIVE VolumeSum(_, _)
VolumeSum(bin, k) == IF k = 0 THEN 0 ELSE VolumeSum(bin, k - 1) + bin[k].volume

\* close aggregated as the first value of the bin instead of the last
AggCloseFirst(T, bin) ==
    IF bin = << >>
    THEN [ts |-> T, open |-> None, high |-> None, low |-> None, close |-> None,
          volume |-> Some(0)]
    ELSE [ts |-> T,
          open |-> Some(bin[1].open),
          high |-> Some(CHOOSE x \in {bin[k].high : k \in DOMAIN bin} :
                            \A k \in DOMAIN bin : bin[k].high <= x),
          low |-> Some(CHOOSE x \in {bin[k].low : k \in DOMAIN bin} :
                            \A k \in DOMAIN bin : x <= bin[k].low),
          close |-> Some(bin[1].close),
          volume |-> Some(VolumeSum(bin, Len(bin)))]

\* .agg({...}) on the rows of one bin: an empty bin has NaN prices and volume 0
Agg(T, bin) ==
    IF bin = << >>
    THEN [ts |-> T, open |-> None, high |-> None, low |-> None, close |-> None,
          volume |-> Some(0)]
    ELSE [ts |-> T,
          open |-> Some(bin[1].open),
          high |-> Some(CHOOSE x \in {bin[k].high : k \in DOMAIN bin} :
                            \A k \in DOMAIN bin : bin[k].high <= x),
          low |-> Some(CHOOSE x \in {bin[k].low : k \in DOMAIN bin} :
                            \A k \in DOMAIN bin : x <= bin[k].low),
          close |-> Some(bin[Len(bin)].close),
          volume |-> Some(VolumeSum(bin, Len(bin)))]

\* df_1m.resample(freq, label="right", closed="right").agg({...}) on sorted rows
Aggregate(rows, w) ==
    LET labels == BinLabels(rows, w)
    IN  [k \in DOMAIN labels |->
            Agg(labels[k], SelectSeq(rows, LAMBDA r : Label(r.ts, w) = labels[k]))]

\* no dropna: a row with a NaN kept, its NaN prices and volume as 0
KeepEmpty(frame) ==
    LET num(o) == IF o = None THEN 0 ELSE Val(o)
    IN  [k \in DOMAIN frame |->
            [ts |-> frame[k].ts, open |-> num(frame[k].open), high |-> num(frame[k].high),
             low |-> num(frame[k].low), close |-> num(frame[k].close),
             volume |-> num(frame[k].volume)]]

\* ohlc.dropna(how="any"): the rows without a NaN, as plain values
DropNa(frame) ==
    LET full(r) == /\ r.open # None /\ r.high # None /\ r.low # None
                   /\ r.close # None /\ r.volume # None
        kept == SelectSeq(frame, full)
    IN  [k \in DOMAIN kept |->
            [ts |-> kept[k].ts, open |-> Val(kept[k].open), high |-> Val(kept[k].high),
             low |-> Val(kept[k].low), close |-> Val(kept[k].close),
             volume |-> Val(kept[k].volume)]]

\* what resample_ohlcv leaves alone
ResampleFrame ==
    <<Inputs, Live, arg, error, reruns, stats_out, df, timeframe, equity, trades, i, cash,
      position, entry_price, entry_date, equity_curve, entries_taken>>

\* resample_ohlcv on the native timeframe: the sorted copy
ResampleNative ==
    /\ pc = "resample"
    /\ EnsureOhlcv(df)
    /\ timeframe \in {"1m", "1T", "1min"}
    /\ resampled' = Some(SortIndex(df.rows))
    /\ pc' = "returned"
    /\ UNCHANGED ResampleFrame

\* resample_ohlcv on a coarser timeframe
ResampleWindows ==
    /\ pc = "resample"
    /\ EnsureOhlcv(df)
    /\ timeframe \notin {"1m", "1T", "1min"}
    /\ resampled' = Some(DropNa(Aggregate(SortIndex(df.rows), ToPandasFreq(timeframe))))
    /\ pc' = "returned"
    /\ UNCHANGED ResampleFrame

NextResample == ResampleNative \/ ResampleWindows

SpecResample == InitResample /\ [][NextResample]_vars

\* ------------------------------------------- frames of any schema
\* the columns a frame may have: any of the required ones, and one more
Columns == REQUIRED_COLS \cup {"trades"}

\* the index check made before the column check
EnsureErrorIndexFirst(d) ==
    IF ~d.temporal THEN "TypeError" ELSE "ValueError"

\* the exception of ensure_ohlcv: the missing columns are looked at first
EnsureError(d) ==
    IF REQUIRED_COLS \ d.columns # {} THEN "ValueError" ELSE "TypeError"

\* resample_ohlcv is about to be called on a frame of any columns and index type
InitSchema ==
    /\ df \in [columns : SUBSET Columns, temporal : BOOLEAN, rows : FramesUpTo(1)]
    /\ timeframe \in Timeframes
    /\ resampled = None
    /\ pc = "resample"
    /\ close = << >>
    /\ entries = << >>
    /\ exits = << >>
    /\ fee = Num(0)
    /\ slippage = Num(0)
    /\ init_cash = Num(DefaultInitCash)
    /\ equity = None
    /\ trades = << >>
    /\ i = 0
    /\ cash = None
    /\ position = None
    /\ entry_price = None
    /\ entry_date = None
    /\ equity_curve = None
    /\ entries_taken = 0
    /\ arg = [entries |-> Aligned(close, entries), exits |-> Aligned(close, exits)]
    /\ BacktesterOnly
    /\ NoLive

\* resample_ohlcv on a frame ensure_ohlcv rejects: the exception leaves the call
ResampleRaises ==
    /\ pc = "resample"
    /\ ~EnsureOhlcv(df)
    /\ error' = Some(EnsureError(df))
    /\ pc' = "raised"
    /\ UNCHANGED <<Inputs, Live, arg, reruns, stats_out, df, timeframe, resampled, equity,
                   trades, i, cash, position, entry_price, entry_date, equity_curve,
                   entries_taken>>

NextSchema == ResampleRaises \/ ResampleNative \/ ResampleWindows

SpecSchema == InitSchema /\ [][NextSchema]_vars

\* ------------------------------------------------------------- _evaluate
MaxEvalBars == 3

\* the performance as a fraction instead of a percentage
EvaluateFraction(c, en, ex, f, ic) ==
    LET eq == RunLoopOn(c, en, ex, StartLocals(ic, << >>), 1, f, Num(0)).equity_curve
    IN  IF Len(eq) < 2 \/ RLe(eq[1], Num(0)) THEN Num(0)
        ELSE RSub(RDiv(eq[Len(eq)], eq[1]), Num(1))

\* _evaluate(close, entries, exits, fee, init_cash): a Backtester with slippage 0 is
\* run, and the performance in percent is read from its equity curve
Evaluate(c, en, ex, f, ic) ==
    LET eq == RunLoopOn(c, en, ex, StartLocals(ic, << >>), 1, f, Num(0)).equity_curve
    IN  IF Len(eq) < 2 \/ RLe(eq[1], Num(0)) THEN Num(0)
        ELSE RMul(RSub(RDiv(eq[Len(eq)], eq[1]), Num(1)), Num(100))

\* Backtester.__init__ on the inputs _evaluate is compared on
InitEvaluate ==
    /\ close \in SeqsUpTo(Prices, MaxEvalBars)
    /\ entries \in [1..Len(close) -> BOOLEAN]
    /\ exits \in [1..Len(close) -> BOOLEAN]
    /\ fee \in Fees
    /\ slippage \in Slippages
    /\ init_cash = Num(DefaultInitCash)
    /\ Fresh
    /\ arg = [entries |-> Aligned(close, entries), exits |-> Aligned(close, exits)]
    /\ BacktesterOnly
    /\ NoLive
    /\ NoResample

SpecEvaluate == InitEvaluate /\ [][NextStats]_vars

\* -------------------------------------------------------- quick_backtest
MaxQuickBars == 3

\* fee values of the comparison, one above 1 included
QuickFees == {Num(0), Rat(1, 2), Num(2)}

\* x to the power n
RECURSIVE RPow(_, _)
RPow(x, n) == IF n = 0 THEN Num(1) ELSE RMul(RPow(x, n - 1), x)

\* the locals of quick_backtest before its loop
QuickStart == [cash |-> Num(1), position |-> 0, entry_price |-> None, equity_curve |-> << >>]

\* the exit branch of quick_backtest
QuickExitBranch(st, price, f) ==
    LET pnl == RDiv(RSub(price, Val(st.entry_price)), Val(st.entry_price))
        pnl_after_fee == RSub(RMul(RAdd(Num(1), pnl), RSub(Num(1), f)), Num(1))
    IN  [st EXCEPT !.cash = RMul(@, RAdd(Num(1), pnl_after_fee)),
                   !.position = 0,
                   !.entry_price = None]

\* an entry that leaves cash alone
QuickEntryNoFee(st, price, f) ==
    [st EXCEPT !.position = 1, !.entry_price = Some(price)]

\* the entry branch of quick_backtest: the entry fee is taken from cash
QuickEntryBranch(st, price, f) ==
    [st EXCEPT !.position = 1, !.entry_price = Some(price),
               !.cash = RMul(@, RSub(Num(1), f))]

\* one iteration of the loop of quick_backtest
QuickIteration(st, price, ex, en, f) ==
    LET s1 == IF st.position > 0 /\ ex THEN QuickExitBranch(st, price, f)
              ELSE IF st.position = 0 /\ en THEN QuickEntryBranch(st, price, f)
              ELSE st
    IN  [s1 EXCEPT !.equity_curve =
            Append(@, IF s1.position = 0 THEN s1.cash
                      ELSE RMul(s1.cash, RDiv(price, Val(s1.entry_price))))]

\* the loop of quick_backtest over close series c and signals en, ex, from bar k on
RECURSIVE QuickLoop(_, _, _, _, _, _)
QuickLoop(c, en, ex, st, k, f) ==
    IF k > Len(c) THEN st
    ELSE QuickLoop(c, en, ex, QuickIteration(st, c[k], ex[k], en[k], f), k + 1, f)

\* the dict quick_backtest returns
QuickResult(c, en, ex, f) ==
    LET eq == QuickLoop(c, en, ex, QuickStart, 1, f).equity_curve
    IN  [total_return |-> RSub(eq[Len(eq)], Num(1)),
         sharpe |-> Sharpe(PctChange(eq)),
         max_dd |-> MaxDrawdown(eq),
         equity_curve |-> eq]

\* a Backtester with slippage 0 is constructed; quick_backtest is about to be called
\* on the same prices and signals with the same fee
InitQuick ==
    /\ close \in SeqsUpTo(Prices, MaxQuickBars)
    /\ entries \in [1..Len(close) -> BOOLEAN]
    /\ exits \in [1..Len(close) -> BOOLEAN]
    /\ fee \in QuickFees
    /\ slippage = Num(0)
    /\ init_cash = Num(DefaultInitCash)
    /\ Fresh
    /\ arg = [entries |-> Aligned(close, entries), exits |-> Aligned(close, exits)]
    /\ BacktesterOnly
    /\ NoLive
    /\ NoResample

QuickFrame ==
    <<Inputs, arg, reruns, stats_out, df, timeframe, resampled, strat, consumer,
      strategy_out, Bot, Store, equity, trades, pc, i, cash, position, entry_price, entry_date,
      equity_curve, entries_taken>>

\* quick_backtest(close, entries, exits, fee) returns its dict
QuickBacktest ==
    /\ result = None
    /\ error = None
    /\ close # << >>
    /\ result' = Some(QuickResult(close, entries, exits, fee))
    /\ UNCHANGED <<QuickFrame, error>>

\* quick_backtest on an empty series: equity.iloc[-1] raises IndexError
QuickRaises ==
    /\ result = None
    /\ error = None
    /\ close = << >>
    /\ error' = Some("IndexError")
    /\ UNCHANGED <<QuickFrame, result>>

NextQuick == Next \/ QuickBacktest \/ QuickRaises

SpecQuick == InitQuick /\ [][NextQuick]_vars

\* ------------------------------------------- strategies and their callers
MaxSignalBars == 2

Strategies == {"sma", "rsi", "macd", "bollinger"}

\* the callers that read out["entries"] and out["exits"]: the basic runner of
\* strategy_loader, the tuners of parameter_tuner, run_strategies of the signal runners
Consumers == {"loader", "tuner", "signal_runner"}

\* the Backtester and the resampler are not in use
Unused ==
    /\ entries = << >>
    /\ exits = << >>
    /\ fee = Num(0)
    /\ slippage = Num(0)
    /\ init_cash = Num(DefaultInitCash)
    /\ equity = None
    /\ trades = << >>
    /\ i = 0
    /\ cash = None
    /\ position = None
    /\ entry_price = None
    /\ entry_date = None
    /\ equity_curve = None
    /\ entries_taken = 0
    /\ reruns = 0
    /\ stats_out = None
    /\ NoResample

UnusedVars ==
    <<entries, exits, fee, slippage, init_cash, equity, trades, i, cash, position,
      entry_price, entry_date, equity_curve, entries_taken, reruns, stats_out, df,
      timeframe, resampled>>

\* every strategy names its signals entries and exits
StrategyKeysUniform(s) == [long |-> "entries", exit |-> "exits"]

\* the keys under which strategy s returns its two signal series
StrategyKeys(s) ==
    IF s \in {"sma", "rsi"}
    THEN [long |-> "signal_long", exit |-> "signal_exit"]
    ELSE [long |-> "entries", exit |-> "exits"]

\* the dict strategy s returns for the signals sig it computed on the close series
StrategyDict(s, sig) ==
    (StrategyKeys(s).long :> sig.entries) @@ (StrategyKeys(s).exit :> sig.exits)
        @@ ("params" :> "params") @@ ("indicators" :> "indicators")

\* _signals_from_last_bar: BUY or SELL from the last row, HOLD if there is none
SignalsFromLastBar(d) ==
    LET en == d["entries"].values
        ex == d["exits"].values
    IN  IF en = << >> \/ ex = << >> THEN "HOLD"
        ELSE IF Val(en[Len(en)]) THEN "BUY"
        ELSE IF Val(ex[Len(ex)]) THEN "SELL"
        ELSE "HOLD"

\* a caller is about to run a strategy on a close series; arg holds the signals the
\* strategy computes from it
InitStrategies ==
    /\ strat \in Strategies
    /\ consumer \in Consumers
    /\ close \in SeqsUpTo(Prices, MaxSignalBars)
    /\ arg \in [entries : {Series(CloseIndex(close), [k \in 1..Len(close) |-> Some(b[k])]) :
                              b \in [1..Len(close) -> BOOLEAN]},
                 exits : {Series(CloseIndex(close), [k \in 1..Len(close) |-> Some(b[k])]) :
                              b \in [1..Len(close) -> BOOLEAN]}]
    /\ strategy_out = None
    /\ result = None
    /\ error = None
    /\ pc = "call"
    /\ Unused
    /\ NoBot
    /\ NoStore

\* run_<strat>_strategy(close, params) returns its dict
RunStrategy ==
    /\ pc = "call"
    /\ strategy_out' = Some(StrategyDict(strat, arg))
    /\ pc' = "strategy_returned"
    /\ UNCHANGED <<UnusedVars, Bot, Store, close, arg, error, strat, consumer, result>>

\* the caller reads out["entries"] and out["exits"] and goes on with them
ReadSignals ==
    /\ pc = "strategy_returned"
    /\ {"entries", "exits"} \subseteq DOMAIN Val(strategy_out)
    /\ result' = Some([consumer |-> consumer,
                       last_signal |-> IF consumer = "loader"
                                       THEN SignalsFromLastBar(Val(strategy_out))
                                       ELSE "none"])
    /\ pc' = "returned"
    /\ UNCHANGED <<UnusedVars, Bot, Store, close, arg, error, strat, consumer, strategy_out>>

\* the caller reads a key the dict does not have: KeyError
ReadKeyError ==
    /\ pc = "strategy_returned"
    /\ ~({"entries", "exits"} \subseteq DOMAIN Val(strategy_out))
    /\ error' = Some("KeyError")
    /\ pc' = "raised"
    /\ UNCHANGED <<UnusedVars, Bot, Store, close, arg, strat, consumer, strategy_out, result>>

NextStrategies == RunStrategy \/ ReadSignals \/ ReadKeyError

SpecStrategies == InitStrategies /\ [][NextStrategies]_vars

\* ------------------------------------------------------- the trading bot
\* closed bars run_strategy wants before it evaluates the strategy
MinBars == 60
MaxClosedBars == 61

Decisions == {"BUY", "SELL", "HOLD"}

ApiCalls == {"fetch", "balances", "strategy", "before", "create", "after", "final"}

\* which of the calls of one run_strategy call succeed: the klines fetch, the balance
\* query before the decision, the strategy, the three calls of execute_order and
\* the balance query after the decision; at most one of them fails
ApiOutcomes ==
    {[c \in ApiCalls |-> TRUE]} \cup {[c \in ApiCalls |-> c # failed] : failed \in ApiCalls}

\* a bar no older than the last processed one counts as new
ShouldRunForSameBar(last, last_bar) ==
    last_bar > 0 /\ (last = None \/ last_bar >= Val(last))

\* should_run_for_new_bar: TRUE iff there is a closed bar and it is newer than the
\* last processed one; the caller then records it
ShouldRunForNewBar(last, last_bar) ==
    last_bar > 0 /\ (last = None \/ last_bar > Val(last))

\* execute_order(signal) when its calls succeed as a says: whether it raised, what
\* it returned and whether an order was created at the venue
ExecuteOrder(signal, a) ==
    IF ~a.before THEN [raised |-> TRUE, order |-> None, placed |-> FALSE]
    ELSE IF signal \in {"BUY", "SELL"}
    THEN IF ~a.create THEN [raised |-> FALSE, order |-> None, placed |-> FALSE]
         ELSE IF ~a.after THEN [raised |-> FALSE, order |-> None, placed |-> TRUE]
         ELSE [raised |-> FALSE, order |-> Some(signal), placed |-> TRUE]
    ELSE [raised |-> FALSE, order |-> None, placed |-> FALSE]

\* run_strategy(force) on the closed bars 1..closed_bars, the strategy deciding
\* decision: the new _last_processed_bar, the histories and how the call went
RunStrategyCall(force, a, decision) ==
    LET n == closed_bars
        is_new == ShouldRunForNewBar(last_processed_bar, n)
        lp == IF a.fetch /\ n > 0 /\ ~force /\ is_new THEN Some(n) ELSE last_processed_bar
        reaches == a.fetch /\ n > 0 /\ (force \/ is_new) /\ n >= MinBars /\ a.balances
        ex == ExecuteOrder(decision, a)
        calls == reaches /\ a.strategy /\ decision \in {"BUY", "SELL"}
        outcome ==
            IF ~a.fetch THEN "fetch_failed"
            ELSE IF n = 0 THEN "no_closed_bars"
            ELSE IF ~force /\ ~is_new THEN "not_new"
            ELSE IF n < MinBars THEN "not_enough_bars"
            ELSE IF ~a.balances THEN "balances_failed"
            ELSE IF ~a.strategy THEN "strategy_failed"
            ELSE IF ~calls THEN "hold"
            ELSE IF ex.raised THEN "executor_raised"
            ELSE IF ~a.final THEN "balances_failed_after"
            ELSE "order_handled"
    IN  [last_processed_bar |-> lp,
         evaluated |-> IF reaches THEN Append(evaluated, [bar |-> n, force |-> force])
                       ELSE evaluated,
         orders |-> IF calls /\ ex.placed THEN Append(orders, [bar |-> n, side |-> decision])
                    ELSE orders,
         run |-> [force |-> force,
                  outcome |-> outcome,
                  raised |-> outcome \in {"fetch_failed", "balances_failed",
                                          "strategy_failed", "executor_raised",
                                          "balances_failed_after"},
                  executor |-> IF ~calls THEN "not_called"
                               ELSE IF ex.raised THEN "raised"
                               ELSE IF ex.order = None THEN "returned_none"
                               ELSE "returned_order",
                  placed |-> calls /\ ex.placed,
                  log |-> IF ~calls \/ ex.raised THEN "none"
                          ELSE IF ex.order # None THEN "Order executed"
                          ELSE "Order failed or was not created"]]

\* what the bot leaves alone
BotFrame ==
    <<Inputs, equity, trades, i, cash, position, entry_price, entry_date, equity_curve,
      entries_taken, arg, error, reruns, stats_out, df, timeframe, resampled, strat,
      consumer, strategy_out, result, Store>>

\* the bot starts: nothing processed yet
InitBot ==
    /\ pc = "startup"
    /\ last_processed_bar = None
    /\ closed_bars \in {0, MinBars - 1, MinBars}
    /\ evaluated = << >>
    /\ orders = << >>
    /\ last_run = None
    /\ close = << >>
    /\ arg = None
    /\ error = None
    /\ strat = "sma"
    /\ consumer = "loader"
    /\ strategy_out = None
    /\ result = None
    /\ Unused
    /\ NoStore

\* the state after a run_strategy call
Ran(r) ==
    /\ last_processed_bar' = r.last_processed_bar
    /\ evaluated' = r.evaluated
    /\ orders' = r.orders
    /\ last_run' = Some(r.run)
    /\ UNCHANGED <<closed_bars, BotFrame>>

\* __main__: run_strategy(force=True); an exception ends the process
ForcedRun ==
    /\ pc = "startup"
    /\ \E a \in ApiOutcomes, decision \in Decisions :
          LET r == RunStrategyCall(TRUE, a, decision)
          IN  /\ Ran(r)
              /\ pc' = IF r.run.raised THEN "crashed" ELSE "polling"

\* one round of the loop of __main__: run_strategy(force=False), exceptions logged
PollingRun ==
    /\ pc = "polling"
    /\ \E a \in ApiOutcomes, decision \in Decisions :
          Ran(RunStrategyCall(FALSE, a, decision))
    /\ pc' = pc

\* the exchange closes one more bar
BarCloses ==
    /\ closed_bars < MaxClosedBars
    /\ closed_bars' = closed_bars + 1
    /\ UNCHANGED <<pc, last_processed_bar, evaluated, orders, last_run, BotFrame>>

NextBot == ForcedRun \/ PollingRun \/ BarCloses

SpecBot == InitBot /\ [][NextBot]_vars

\* ---------------------------------------------------------- record_best
MaxRecords == 2

\* the processes that call record_best on the shared file
Callers == {1, 2}

\* keys f"{symbol}_{timeframe}_{strat_name}" and parameter dicts of the calls
Keys == {"BTCUSDT_15m_sma", "BTCUSDT_15m_rsi"}
ParamValues == {[window |-> 14], [window |-> 21]}
\* start and end of the backtest period, joined by an arrow in the file
Periods == {<<"2022-09-01", "2025-09-01">>}
\* perf_pct values; formatted with two decimals, which these have
Perfs == {5}

\* a dict without entries
EmptyDict == << >>

\* best_params.json: missing, not parseable as JSON, or holding a dict
Missing == [state |-> "missing", data |-> EmptyDict]
Unreadable == [state |-> "unreadable", data |-> EmptyDict]
Json(d) == [state |-> "json", data |-> d]

\* _load_best: the stored dict, {} when the file is missing or unreadable
LoadBest(file) == IF file.state = "json" THEN file.data ELSE EmptyDict

\* dict.get(k, default)
Get(d, k, default) == IF k \in DOMAIN d THEN d[k] ELSE default

\* d[k] = v
Put(d, k, v) == (k :> v) @@ d

\* the dict record_best saves, from the dict it loaded
Updated(data, key, params, perf, period) ==
    LET d1 == Put(data, key, params)
        bt_meta == Put(Get(d1, "__backtest", EmptyDict), key,
                       [period |-> period, performance |-> perf])
    IN  Put(d1, "__backtest", bt_meta)

Idle == [pc |-> "idle"]

\* record_best calls begun and not yet abandoned
Begun == Len(recorded) + Cardinality({c \in Callers : writers[c].pc # "idle"})

\* what record_best leaves alone
StoreFrame ==
    <<Inputs, equity, trades, pc, i, cash, position, entry_price, entry_date,
      equity_curve, entries_taken, arg, error, reruns, stats_out, df, timeframe,
      resampled, strat, consumer, strategy_out, result, Bot>>

\* the file as some earlier session left it; nobody is writing
InitStore ==
    /\ best_file \in {Missing, Unreadable, Json(EmptyDict)}
    /\ writers = [c \in Callers |-> Idle]
    /\ recorded = << >>
    /\ pc = "store"
    /\ close = << >>
    /\ arg = None
    /\ error = None
    /\ strat = "sma"
    /\ consumer = "tuner"
    /\ strategy_out = None
    /\ result = None
    /\ Unused
    /\ NoBot

\* caller c enters record_best: _load_best() and the update of the dict in memory
LoadAndUpdate(c) ==
    /\ writers[c].pc = "idle"
    /\ Begun < MaxRecords
    /\ \E key \in Keys, params \in ParamValues, perf \in Perfs, period \in Periods :
          writers' = [writers EXCEPT ![c] =
              [pc |-> "loaded", key |-> key, params |-> params,
               data |-> Updated(LoadBest(best_file), key, params, perf, period)]]
    /\ UNCHANGED <<best_file, recorded, StoreFrame>>

\* caller c runs _save_best(data) and record_best returns
SaveBest(c) ==
    /\ writers[c].pc = "loaded"
    /\ best_file' = Json(writers[c].data)
    /\ recorded' = Append(recorded, [key |-> writers[c].key, params |-> writers[c].params])
    /\ writers' = [writers EXCEPT ![c] = Idle]
    /\ UNCHANGED StoreFrame

\* caller c is killed in _save_best after open(BEST_PATH, "w") has truncated the file
\* and before json.dump has written it
KilledInSave(c) ==
    /\ writers[c].pc = "loaded"
    /\ best_file' = Unreadable
    /\ writers' = [writers EXCEPT ![c] = Idle]
    /\ UNCHANGED <<recorded, StoreFrame>>

NextStore == \E c \in Callers : LoadAndUpdate(c) \/ SaveBest(c) \/ KilledInSave(c)

SpecStore == InitStore /\ [][NextStore]_vars

\* ------------------------------------- the resampling example (spec 8)
MaxStart == 5

\* the volumes of the synthetic bars
ExampleVolumes == {10, 20}

\* five consecutive one-minute bars from minute s on, closes 1..5, each bar flat at
\* its close, volumes v
FiveBars(s, v) ==
    [k \in 1..5 |->
        [ts |-> s + k - 1, open |-> k, high |-> k, low |-> k, close |-> k,
         volume |-> v[k]]]

\* resample_ohlcv is about to be called on the five bars, for the timeframe 5m
InitFive ==
    /\ df \in {[columns |-> REQUIRED_COLS, temporal |-> TRUE, rows |-> FiveBars(s, v)] :
                  s \in 0..MaxStart, v \in [1..5 -> ExampleVolumes]}
    /\ timeframe = "5m"
    /\ resampled = None
    /\ pc = "resample"
    /\ close = << >>
    /\ entries = << >>
    /\ exits = << >>
    /\ fee = Num(0)
    /\ slippage = Num(0)
    /\ init_cash = Num(DefaultInitCash)
    /\ equity = None
    /\ trades = << >>
    /\ i = 0
    /\ cash = None
    /\ position = None
    /\ entry_price = None
    /\ entry_date = None
    /\ equity_curve = None
    /\ entries_taken = 0
    /\ arg = [entries |-> Aligned(close, entries), exits |-> Aligned(close, exits)]
    /\ BacktesterOnly
    /\ NoLive

SpecFive == InitFive /\ [][ResampleWindows]_vars

\* ------------------------------------------------------------------ claims
\* the state the transitions of run() act on
Book == <<cash, position, entry_price, entry_date, trades>>

\* run() is about to process bar i + 1
InLoop == pc = "loop" /\ i < Len(close)

\* what one bar of the loop may do to the book
C1_Step ==
    InLoop =>
        /\ (position = 1 /\ entries[i + 1] /\ ~exits[i + 1]) => UNCHANGED Book
        /\ (position = 0 /\ exits[i + 1] /\ ~entries[i + 1]) => UNCHANGED Book
        /\ (Book' # Book) =>
              \/ position = 1 /\ exits[i + 1] /\ position' = 0
              \/ position = 0 /\ entries[i + 1] /\ position' = 1

\* C1: during run the position is always FLAT (0) or LONG (1); the book (cash,
\* position, entry price, entry date, trade log) changes on a bar only by an exit
\* taken while LONG on an exit signal or by an entry taken while FLAT on an entry
\* signal, so an entry signal on a LONG bar without exit signal and an exit signal
\* on a FLAT bar without entry signal leave the book unchanged.
C1_OnePosition ==
    /\ [](pc # "new" => position \in {0, 1})
    /\ [][C1_Step]_vars

\* bar 1 was an exit signal while FLAT, and bar i an entry signal while LONG
C1_Witness ==
    /\ pc = "loop" /\ i >= 3
    /\ exits[1] /\ ~entries[1]
    /\ position = 1 /\ Val(entry_date) < i
    /\ entries[i] /\ ~exits[i]

\* a LONG bar with both signals
C2_Step ==
    (InLoop /\ position = 1 /\ exits[i + 1] /\ entries[i + 1]) =>
        /\ position' = 0
        /\ entry_price' = None /\ entry_date' = None
        /\ Len(trades') = Len(trades) + 1
        /\ trades'[Len(trades')].exit_date = i + 1
        /\ equity_curve'[i + 1] = cash'

\* C2: a bar on which the engine is LONG and both signals are true closes the
\* position and ends FLAT, with one more trade record and that bar's equity equal
\* to the cash; any position open later was entered on a bar after the last exit.
C2_ExitNotReentry ==
    /\ [][C2_Step]_vars
    /\ []((pc # "new" /\ position = 1 /\ Len(trades) > 0)
            => Val(entry_date) > trades[Len(trades)].exit_date)

\* bar i had both signals and closed the position entered before it
C2_Witness ==
    /\ pc = "loop" /\ i >= 2
    /\ exits[i] /\ entries[i]
    /\ position = 0
    /\ Len(trades) > 0 /\ trades[Len(trades)].exit_date = i

\* one bar appends one equity value
C3_Step ==
    (pc = "loop" /\ pc' = "loop") =>
        /\ Len(equity_curve') = Len(equity_curve) + 1
        /\ SubSeq(equity_curve', 1, Len(equity_curve)) = equity_curve

\* the length and the first value of the equity curve
C3_State ==
    /\ pc = "loop" =>
          /\ Len(equity_curve) = i
          /\ (i >= 1 /\ ~entries[1]) => equity_curve[1] = init_cash
    /\ pc = "done" =>
          /\ equity # None
          /\ DOMAIN Val(equity) = DOMAIN close
          /\ Val(equity) = equity_curve
          /\ (Len(close) >= 1 /\ ~entries[1]) => Val(equity)[1] = init_cash

\* C3: the equity curve has one value per processed bar, appended in bar order,
\* so self.equity has exactly one value per input bar; when bar 1 has no entry
\* signal its first value is init_cash.
C3_EquityPerBar == []C3_State /\ [][C3_Step]_vars

\* a finished run of three bars or more on which nothing happened at bar 1
C3_Witness ==
    /\ pc = "done" /\ Len(close) >= 3
    /\ ~entries[1]
    /\ Len(Val(equity)) = Len(close)
    /\ \E k \in 2..Len(close) : Val(equity)[k] # init_cash

\* the order of the bars of the trade log
C4_State ==
    /\ \A k \in 1..Len(trades) : trades[k].exit_date > trades[k].entry_date
    /\ \A k \in 1..(Len(trades) - 1) : trades[k + 1].entry_date > trades[k].exit_date

\* the trade log is append-only
C4_Step ==
    /\ Len(trades') >= Len(trades)
    /\ SubSeq(trades', 1, Len(trades)) = trades

C5_Step ==
    (pc = "loop" /\ pc' = "done") => UNCHANGED <<Book, equity_curve>>

\* a run that returned LONG
C5_State ==
    (pc = "done" /\ position = 1) =>
        /\ \A k \in 1..Len(trades) :
              /\ trades[k].entry_date # Val(entry_date)
              /\ trades[k].exit_date < Val(entry_date)
        /\ Val(equity)[Len(close)] =
              RMul(cash, RDiv(close[Len(close)], Val(entry_price)))

\* C5: a run that ends LONG is not force-closed: leaving the loop changes neither
\* the book nor the equity curve, the trade log holds no record of the open
\* position (every record was closed before it was entered), and the final equity
\* value is cash * (last price / entry price).
C5_NoForceClose == []C5_State /\ [][C5_Step]_vars

\* the run ended LONG after a completed round trip, the last price off the entry price
C5_Witness ==
    /\ pc = "done" /\ position = 1
    /\ Len(trades) >= 1
    /\ close[Len(close)] # Val(entry_price)
    /\ Val(equity)[Len(close)] # cash

\* C6: the number of trade records is the number of entries taken minus the open
\* position, at every bar and when run returns: equal if FLAT, one fewer if LONG.
C6_TradesVsEntries ==
    pc # "new" =>
        /\ entries_taken - Len(trades) \in {0, 1}
        /\ Len(trades) = entries_taken - position

\* the run returned LONG with two entries taken and one record
C6_Witness ==
    /\ pc = "done" /\ position = 1
    /\ entries_taken = 2 /\ Len(trades) = 1

\* the factor of an exit at p from an entry at e
C7_Factor(p, e) == RMul(RDiv(p, e), RSub(Num(1), RAdd(fee, slippage)))

\* cash and the trade log over one step of run()
C7_Step ==
    pc = "loop" =>
        IF i < Len(close) /\ position = 1 /\ exits[i + 1]
        THEN /\ cash' = RMul(cash, C7_Factor(close[i + 1], Val(entry_price)))
             /\ trades' = Append(trades,
                    [entry_date |-> Val(entry_date),
                     exit_date |-> i + 1,
                     entry_price |-> Val(entry_price),
                     exit_price |-> close[i + 1],
                     return |-> RSub(C7_Factor(close[i + 1], Val(entry_price)), Num(1))])
        ELSE cash' = cash /\ trades' = trades

\* C7: an exit at price p from a position entered at e multiplies cash by
\* (p / e) * (1 - (fee + slippage)) and appends exactly one record with the entry
\* and exit bars and prices and return (p / e) * (1 - (fee + slippage)) - 1; on
\* any other bar, and when the loop is left, cash and the trade log do not change.
C7_ExitAccounting == [][C7_Step]_vars

\* a round trip with a price move was closed under a cost strictly between 0 and 1
C7_Witness ==
    /\ Len(trades) >= 1
    /\ trades[1].entry_price # trades[1].exit_price
    /\ RLt(Num(0), RAdd(fee, slippage)) /\ RLt(RAdd(fee, slippage), Num(1))
    /\ cash # init_cash

\* a FLAT bar with an entry signal
C8_Step ==
    (InLoop /\ position = 0 /\ entries[i + 1]) =>
        /\ cash' = cash
        /\ trades' = trades
        /\ position' = 1
        /\ entry_price' = Some(close[i + 1])
        /\ entry_date' = Some(i + 1)
        /\ equity_curve'[i + 1] = cash

\* C8: taking an entry leaves cash and the trade log unchanged, records the entry
\* price and date, sets the position to LONG, and the equity appended at the entry
\* bar is the cash held before the entry.
C8_EntryFrame == [][C8_Step]_vars

\* bar i was an entry under a non-zero fee, after an earlier round trip
C8_Witness ==
    /\ pc = "loop" /\ i >= 3
    /\ position = 1 /\ Val(entry_date) = i
    /\ fee # Num(0)
    /\ Len(trades) >= 1
    /\ equity_curve[i] = cash

\* the last equity value appended
C9_State ==
    (pc = "loop" /\ i >= 1) =>
        equity_curve[i] =
            IF position = 0 THEN cash
            ELSE RMul(cash, RDiv(close[i], Val(entry_price)))

\* the equity values of two consecutive bars
C9_Step ==
    (pc = "loop" /\ pc' = "loop" /\ i >= 1) =>
        /\ (position = 0 /\ position' = 0) => equity_curve'[i + 1] = equity_curve[i]
        /\ (position = 1 /\ position' = 1) =>
              RMul(equity_curve'[i + 1], close[i]) = RMul(equity_curve[i], close[i + 1])

\* C9: the equity value of every bar is cash when FLAT and
\* cash * (price / entry_price) when LONG, after the bar's transition; over two
\* consecutive FLAT bars it does not change, over two consecutive LONG bars it
\* changes by the ratio of the two closing prices.
C9_MarkToMarket == []C9_State /\ [][C9_Step]_vars

\* bars 1 and 2 were FLAT at different prices, bars i - 1 and i LONG at different prices
C9_Witness ==
    /\ pc = "loop" /\ i >= 4
    /\ ~entries[1] /\ ~entries[2] /\ close[1] # close[2]
    /\ equity_curve[1] = equity_curve[2]
    /\ position = 1 /\ Val(entry_date) < i
    /\ close[i] # close[i - 1]
    /\ equity_curve[i] # equity_curve[i - 1]

\* the total return of the run of the same series under fee f and slippage s
ReplayReturn(f, s) ==
    TotalReturn(RunLoop(StartLocals(init_cash, << >>), 1, f, s).equity_curve, init_cash)

\* C10 as stated: the total return is non-increasing as fee or slippage increases
\* over the non-negative values.
C10_Original ==
    (pc = "done" /\ Len(close) >= 1) =>
        \A f \in Fees, s \in Slippages :
            (RLe(fee, f) /\ RLe(slippage, s)) =>
                RLe(ReplayReturn(f, s), TotalReturn(Val(equity), init_cash))

\* C10 amended: for positive prices the total return is non-increasing as fee or
\* slippage increases over the non-negative values with fee + slippage <= 1.
C10_FeeMonotone ==
    (pc = "done" /\ Len(close) >= 1) =>
        \A f \in Fees, s \in Slippages :
            (RLe(fee, f) /\ RLe(slippage, s) /\ RLe(RAdd(f, s), Num(1))) =>
                RLe(ReplayReturn(f, s), TotalReturn(Val(equity), init_cash))

\* a run with two round trips whose total return strictly drops under a higher
\* fee and under a higher slippage, both within fee + slippage <= 1
C10_Witness ==
    /\ pc = "done" /\ Len(trades) >= 2
    /\ fee = Num(0) /\ slippage = Num(0)
    /\ \E f \in Fees : RLt(Num(0), f)
          /\ RLt(ReplayReturn(f, slippage), TotalReturn(Val(equity), init_cash))
    /\ \E s \in Slippages : RLt(Num(0), s) /\ RLe(s, Num(1))
          /\ RLt(ReplayReturn(fee, s), TotalReturn(Val(equity), init_cash))

\* the inputs of the worked example
IsExample ==
    /\ close = ExampleClose
    /\ entries = ExampleEntries
    /\ exits = ExampleExits
    /\ fee = Num(0) /\ slippage = Num(0)
    /\ init_cash = Num(10000)

\* C11: prices [100, 110, 100, 90], entries [T,F,F,F], exits [F,F,T,F], fee 0,
\* slippage 0, initial cash 10000 give exactly one trade (entered at bar 1 at 100,
\* left at bar 3 at 100, return 0) and the equity curve [10000, 11000, 10000, 10000].
C11_Example ==
    (pc = "done" /\ IsExample) =>
        /\ trades = << [entry_date |-> 1, exit_date |-> 3,
                        entry_price |-> Num(100), exit_price |-> Num(100),
                        return |-> Num(0)] >>
        /\ Val(equity) = <<Num(10000), Num(11000), Num(10000), Num(10000)>>

\* the run of the example returned
C11_Witness == pc = "done" /\ IsExample /\ Len(trades) = 1 /\ position = 0

\* a signal Series whose index is not the index of the close series
Unaligned ==
    \/ arg.entries.index # CloseIndex(close)
    \/ arg.exits.index # CloseIndex(close)

\* C12: when entries or exits is not index-aligned with close, the error is
\* reported before the first bar is processed: no bar is processed, no error is
\* raised mid-run, the trade log stays empty and run() never returns a result that
\* pairs signals with prices by position.
C12_FailFast ==
    Unaligned =>
        /\ i = 0
        /\ trades = << >>
        /\ pc # "done"
        /\ equity = None

\* a configuration the engine's preconditions exclude
BadConfig ==
    \/ RLe(init_cash, Num(0))
    \/ RLt(fee, Num(0))
    \/ RLt(slippage, Num(0))

\* C13: a non-positive initial cash, a negative fee or a negative slippage is
\* rejected before any simulation step runs: no bar is processed, no trade is
\* logged and run() never returns an equity curve.
C13_RejectsBadConfig ==
    BadConfig =>
        /\ i = 0
        /\ trades = << >>
        /\ pc # "done"
        /\ equity = None

\* signal values with every missing value replaced by false
Falsified(values) == [k \in DOMAIN values |-> values[k] = Some(TRUE)]

\* the run of the engine on the caller's series with missing values replaced by false
FalsifiedRun ==
    RunLoopOn(close, Falsified(arg.entries.values), Falsified(arg.exits.values),
              StartLocals(init_cash, << >>), 1, fee, slippage)

\* the signals are coerced once the Backtester is constructed, and run() returns
\* what the run on the falsified signals returns
C14_State ==
    /\ pc # "call" =>
          /\ entries = Falsified(arg.entries.values)
          /\ exits = Falsified(arg.exits.values)
    /\ pc = "done" =>
          /\ Val(equity) = FalsifiedRun.equity_curve
          /\ trades = FalsifiedRun.trades

\* C14: a missing value in entries or exits is treated as false: the signals are
\* coerced by the constructor, before the first bar, the run yields the equity
\* curve and trade log of the run with those values replaced by false, and the
\* caller's series are never modified.
C14_NaNIsFalse == []C14_State /\ [][arg' = arg]_vars

\* a finished run with a round trip, a missing entry value and a missing exit
\* value met while LONG
C14_Witness ==
    /\ pc = "done"
    /\ Len(trades) >= 1
    /\ \E k \in DOMAIN close : arg.entries.values[k] = None
    /\ \E k \in DOMAIN close :
          /\ arg.exits.values[k] = None
          /\ trades[1].entry_date < k /\ k < trades[1].exit_date

\* the outcome of one run() on the inputs, from a new object
FirstRun == RunLoop(StartLocals(init_cash, << >>), 1, fee, slippage)

\* C15: whenever run() has returned, be it the first call or a later one on the same
\* object, the equity curve and the trade log are those of the first call, and the
\* record stats() then returns has the trade count, win rate and profit factor of the
\* first call.
C15_RerunSame ==
    /\ pc \in {"done", "reported"} =>
            /\ Val(equity) = FirstRun.equity_curve
            /\ trades = FirstRun.trades
    /\ pc = "reported" =>
            /\ Val(stats_out).trades = Len(FirstRun.trades)
            /\ Val(stats_out).win_rate = WinRate(FirstRun.trades)
            /\ Val(stats_out).profit_factor = ProfitFactor(FirstRun.trades)

\* stats() has returned its record
Reported == pc = "reported"

\* the equity curve never falls from one bar to the next
NonDecreasing(eq) == \A k \in 2..Len(eq) : RLe(eq[k - 1], eq[k])

\* the drawdown is at most 0, and 0 exactly for a non-decreasing equity curve
C16_AtMostZero ==
    /\ RLe(Val(stats_out).max_dd, Num(0))
    /\ Val(stats_out).max_dd = Num(0) <=> NonDecreasing(Val(equity))

Winners == {k \in DOMAIN trades : RLt(Num(0), trades[k].return)}
Losers == {k \in DOMAIN trades : RLt(trades[k].return, Num(0))}

\* the sum of the returns of the trades ks of the log
RECURSIVE SumOver(_)
SumOver(ks) ==
    IF ks = {} THEN Num(0)
    ELSE LET k == CHOOSE x \in ks : TRUE
         IN  RAdd(trades[k].return, SumOver(ks \ {k}))

\* C17: the profit factor stats() reports is 0 for an empty trade log, the sum of the
\* positive returns when no trade has a negative return, and otherwise the sum of the
\* positive returns divided by the absolute value of the sum of the negative ones; it
\* is a finite number in each case.
C17_ProfitFactor ==
    Reported =>
        LET pf == Val(stats_out).profit_factor
            gains == SumOver(Winners)
            losses == SumOver(Losers)
        IN  /\ pf.d # 0
            /\ trades = << >> => pf = Num(0)
            /\ Losers = {} => pf = gains
            /\ Losers # {} => /\ RLt(losses, Num(0))
                              /\ RMul(pf, RSub(Num(0), losses)) = gains

C17_Witness ==
    /\ Reported
    /\ Winners # {}
    /\ Losers # {}
    /\ RLt(Num(0), Val(stats_out).profit_factor)

C19_EdgeCasesDefined ==
    /\ equity # None => error = None
    /\ Reported =>
            LET out == Val(stats_out)
                eq == Val(equity)
            IN  /\ out.sharpe # "nan"
                /\ (\A k \in DOMAIN eq : eq[k] = eq[1]) => out.sharpe = "zero"
                /\ out.total_return.d # 0
                /\ out.max_dd.d # 0
                /\ out.win_rate.d # 0
                /\ out.profit_factor.d # 0
                /\ trades = << >> =>
                        out.win_rate = Num(0) /\ out.profit_factor = Num(0)
                /\ (trades # << >> /\ Losers = DOMAIN trades) =>
                        out.win_rate = Num(0) /\ out.profit_factor = Num(0)

\* the source bars in the window (T - w, T]
Window(T, w) == {k \in DOMAIN df.rows : T - w < df.rows[k].ts /\ df.rows[k].ts <= T}

\* the sum of the volumes of the source bars ks
RECURSIVE VolumeOver(_)
VolumeOver(ks) ==
    IF ks = {} THEN 0
    ELSE LET k == CHOOSE x \in ks : TRUE
         IN  df.rows[k].volume + VolumeOver(ks \ {k})

\* C20: every bar resample_ohlcv returns is labeled with the end T of a window of the
\* target width and aggregates exactly the source bars with timestamp in (T - width, T]:
\* open of the earliest, close of the latest, the highest high, the lowest low and the
\* sum of the volumes, whatever the row order of the input; every source bar lies in
\* the window of exactly one returned bar.
C20_Windows ==
    pc = "returned" =>
        LET w == ToPandasFreq(timeframe)
            out == Val(resampled)
            src == df.rows
        IN  /\ \A b \in DOMAIN out :
                    LET S == Window(out[b].ts, w)
                        first == CHOOSE k \in S : \A j \in S : src[k].ts <= src[j].ts
                        last == CHOOSE k \in S : \A j \in S : src[j].ts <= src[k].ts
                    IN  /\ out[b].ts % w = 0
                        /\ S # {}
                        /\ out[b].open = src[first].open
                        /\ out[b].close = src[last].close
                        /\ \A k \in S : src[k].high <= out[b].high
                        /\ \E k \in S : src[k].high = out[b].high
                        /\ \A k \in S : out[b].low <= src[k].low
                        /\ \E k \in S : src[k].low = out[b].low
                        /\ out[b].volume = VolumeOver(S)
            /\ \A k \in DOMAIN src :
                    Cardinality({b \in DOMAIN out : k \in Window(out[b].ts, w)}) = 1

\* a five-minute bar made of three one-minute bars given out of order, the first of
\* them on the boundary of the window before
C20_Witness ==
    /\ pc = "returned"
    /\ timeframe = "5m"
    /\ Len(df.rows) = 3
    /\ df.rows[1].ts > df.rows[2].ts
    /\ \E k \in DOMAIN df.rows : df.rows[k].ts = 5
    /\ \E k \in DOMAIN df.rows : df.rows[k].ts = 0
    /\ Len(Val(resampled)) = 2
    /\ Cardinality(Window(5, 5)) = 2

\* the labels of the bars resample_ohlcv returned
OutLabels == {Val(resampled)[b].ts : b \in DOMAIN Val(resampled)}

\* C21: resample_ohlcv returns a bar labeled T, and only one, exactly for the windows
\* (T - width, T] that hold at least one source bar: a window without source bars has
\* no bar in the output, and a window with source bars is not dropped.
C21_NonEmptyWindows ==
    pc = "returned" =>
        LET w == ToPandasFreq(timeframe)
        IN  /\ \A T \in 0..(MaxMinute + w) :
                    T % w = 0 => (T \in OutLabels <=> Window(T, w) # {})
            /\ \A T \in OutLabels : T % w = 0
            /\ Cardinality(OutLabels) = Len(Val(resampled))

\* two source bars with whole empty windows between them: two bars are returned
C21_Witness ==
    /\ pc = "returned"
    /\ timeframe = "2m"
    /\ OutLabels = {0, 6}
    /\ Window(2, 2) = {}
    /\ Window(4, 2) = {}
    /\ Len(df.rows) = 2

\* the one five-minute bar of the example: open 1, high 5, low 1, close 5 and the sum
\* of the five volumes
FiveMinuteBar(out) ==
    /\ Len(out) = 1
    /\ out[1].open = 1
    /\ out[1].high = 5
    /\ out[1].low = 1
    /\ out[1].close = 5
    /\ out[1].volume = VolumeOver(DOMAIN df.rows)

\* the statement for every start of the five minutes
C22_Original == pc = "returned" => FiveMinuteBar(Val(resampled))

\* C22: resampling five consecutive one-minute bars with closes 1..5 to 5m returns the
\* one bar with open 1, high 5, low 1, close 5 and the summed volume, labeled with the
\* last of the five minutes, when the first minute is one past a multiple of five; from
\* any other start the five bars straddle a window boundary and two bars are returned.
C22_FiveMinuteExample ==
    pc = "returned" =>
        LET out == Val(resampled)
            start == df.rows[1].ts
        IN  IF start % 5 = 1
            THEN FiveMinuteBar(out) /\ out[1].ts = start + 4
            ELSE /\ Len(out) = 2
                 /\ out[1].close < 5
                 /\ out[2].open > 1
                 /\ out[2].close = 5
                 /\ out[1].volume + out[2].volume = VolumeOver(DOMAIN df.rows)

C22_Witness ==
    /\ pc = "returned"
    /\ df.rows[1].ts = 1
    /\ FiveMinuteBar(Val(resampled))
    /\ Val(resampled)[1].ts = 5

\* the frame lacks a required column
MissingColumn == REQUIRED_COLS \ df.columns # {}

\* C23: once resample_ohlcv has ended, on any timeframe: if the frame lacks a required
\* column the call has raised ValueError, whatever the index; else if the index is not
\* a DatetimeIndex it has raised TypeError; in both cases nothing was returned; and a
\* call that returned was given all five columns on a DatetimeIndex.
C23_SchemaErrors ==
    pc # "resample" =>
        /\ MissingColumn => pc = "raised" /\ error = Some("ValueError")
        /\ (~MissingColumn /\ ~df.temporal) => pc = "raised" /\ error = Some("TypeError")
        /\ pc = "raised" => resampled = None
        /\ (~MissingColumn /\ df.temporal) => pc = "returned" /\ error = None

\* a frame without volume on a non-temporal index, native timeframe: ValueError
C23_Witness ==
    /\ pc = "raised"
    /\ timeframe = "1m"
    /\ df.columns = REQUIRED_COLS \ {"volume"}
    /\ ~df.temporal
    /\ error = Some("ValueError")
    /\ resampled = None

\* C24: whatever the strategy and the caller, the dict the strategy returned holds the
\* signal series under the keys entries and exits, on the index of the close series,
\* and the caller that read them did not fail: the basic runner of the strategy loader
\* has a last_signal among BUY, SELL, HOLD.
C24_SignalKeys ==
    /\ strategy_out # None =>
            /\ {"entries", "exits"} \subseteq DOMAIN Val(strategy_out)
            /\ Val(strategy_out)["entries"].index = CloseIndex(close)
            /\ Val(strategy_out)["exits"].index = CloseIndex(close)
    /\ pc # "raised"
    /\ (pc = "returned" /\ consumer = "loader") =>
            Val(result).last_signal \in {"BUY", "SELL", "HOLD"}

\* the position of the Backtester after bar t
FullPosition(t) ==
    RunLoopOn(SubSeq(close, 1, t), entries, exits, StartLocals(init_cash, << >>), 1,
              fee, slippage).position

\* the position of quick_backtest after bar t
QuickPosition(t) ==
    QuickLoop(SubSeq(close, 1, t), entries, exits, QuickStart, 1, fee).position

\* the number of entries the Backtester took up to and including bar t
EntriesUpTo(t) ==
    Cardinality({k \in 1..t : FullPosition(k) = 1 /\ (k = 1 \/ FullPosition(k - 1) = 0)})

\* both backtests have returned on a non-empty series
BothDone == pc = "done" /\ result # None

\* same positions, and quick[t] = full[t] / init_cash * (1 - fee)^(entries up to t)
QuickRelation ==
    \A t \in 1..Len(close) :
        /\ QuickPosition(t) = FullPosition(t)
        /\ Val(result).equity_curve[t] =
               RMul(RDiv(Val(equity)[t], init_cash),
                    RPow(RSub(Num(1), fee), EntriesUpTo(t)))

\* quick_backtest is at no bar above the Backtester's equity per unit of init_cash
QuickNeverHigher ==
    \A t \in 1..Len(close) :
        RLe(Val(result).equity_curve[t], RDiv(Val(equity)[t], init_cash))

\* C25 as stated: same positions and the relation at every bar; proportional curves
\* when fee = 0 and quick_backtest never higher when fee > 0.
C25_Original ==
    BothDone =>
        /\ QuickRelation
        /\ fee = Num(0) =>
               \A t \in 1..Len(close) :
                   RMul(Val(result).equity_curve[t], init_cash) = Val(equity)[t]
        /\ RLt(Num(0), fee) => QuickNeverHigher

\* C25 amended: with slippage 0 quick_backtest and Backtester hold the same position
\* at every bar and quick[t] = full[t] / init_cash * (1 - fee)^(entries up to t); the
\* curves are proportional when fee = 0 and quick_backtest is never higher when
\* 0 < fee <= 1.
C25_QuickVsFull ==
    BothDone =>
        /\ QuickRelation
        /\ fee = Num(0) =>
               \A t \in 1..Len(close) :
                   RMul(Val(result).equity_curve[t], init_cash) = Val(equity)[t]
        /\ (RLt(Num(0), fee) /\ RLe(fee, Num(1))) => QuickNeverHigher

\* both have returned after a round trip under fee 1/2 and quick_backtest ends
\* strictly lower
C25_Witness ==
    /\ BothDone
    /\ fee = Rat(1, 2)
    /\ Len(trades) >= 1
    /\ RLt(Val(result).equity_curve[Len(close)], RDiv(Val(equity)[Len(close)], init_cash))

\* a run_strategy call evaluated the strategy in this step
Evaluates == Len(evaluated') > Len(evaluated)

\* C26: a non-forced run_strategy call evaluates the strategy only if the last closed
\* bar is strictly newer than the last processed bar (or none was processed yet); the
\* recorded last processed bar never decreases; a call with no closed bars evaluates
\* nothing and records nothing.
C26_NewBarOnly ==
    [][/\ (pc = "polling" /\ Evaluates) =>
              (last_processed_bar = None \/ closed_bars > Val(last_processed_bar))
       /\ last_processed_bar # None =>
              (last_processed_bar' # None /\ Val(last_processed_bar') >= Val(last_processed_bar))
       /\ closed_bars = 0 =>
              (evaluated' = evaluated /\ last_processed_bar' = last_processed_bar)]_vars

\* a polling run has evaluated a bar newer than the one processed before it, and
\* recorded it
C26_Witness ==
    /\ pc = "polling"
    /\ Len(evaluated) >= 2
    /\ ~evaluated[Len(evaluated)].force /\ ~evaluated[Len(evaluated) - 1].force
    /\ evaluated[Len(evaluated)].bar > evaluated[Len(evaluated) - 1].bar
    /\ last_processed_bar = Some(evaluated[Len(evaluated)].bar)

\* C27: over the forced first run and the polling loop each closed bar leads to at
\* most one strategy evaluation and at most one order.
C27_OncePerBar ==
    /\ \A j, k \in DOMAIN evaluated : evaluated[j].bar = evaluated[k].bar => j = k
    /\ \A j, k \in DOMAIN orders : orders[j].bar = orders[k].bar => j = k

\* C28: execute_order never raises and returns an order exactly when one was created
\* at the venue, so run_strategy never logs "Order failed or was not created" after
\* an order was placed.
C28_OrderIffCreated ==
    last_run # None =>
        /\ Val(last_run).executor # "raised"
        /\ Val(last_run).executor = "returned_order" <=> Val(last_run).placed
        /\ Val(last_run).log = "Order failed or was not created" => ~Val(last_run).placed

\* the params of the last returned record_best call for key k
LastRecorded(k) ==
    LET js == {j \in DOMAIN recorded : recorded[j].key = k}
    IN  recorded[CHOOSE j \in js : \A m \in js : m <= j].params

\* C29: once the record_best calls have returned and the file is as the last of them
\* saved it, it holds, for every key ever recorded, the params of the last call for
\* that key and a __backtest entry for it, whatever the interleaving of the callers
\* and whatever state the file was in before a call.
C29_KeepsEveryKey ==
    ((\A c \in Callers : writers[c].pc = "idle") /\ best_file.state = "json") =>
        \A j \in DOMAIN recorded :
            /\ recorded[j].key \in DOMAIN best_file.data
            /\ best_file.data[recorded[j].key] = LastRecorded(recorded[j].key)
            /\ recorded[j].key \in DOMAIN Get(best_file.data, "__backtest", EmptyDict)

\* C30: over a non-empty series the first equity value equals init_cash, also when
\* an entry is taken on the first bar; the total return of stats() equals last / first
\* - 1 of the equity curve, and with slippage 0 the performance of _evaluate on the
\* same inputs is 100 times that total return.
C30_FirstEquity ==
    /\ (equity # None /\ Val(equity) # << >>) => Val(equity)[1] = init_cash
    /\ Reported =>
           /\ Val(stats_out).total_return =
                  RSub(RDiv(Val(equity)[Len(Val(equity))], Val(equity)[1]), Num(1))
           /\ slippage = Num(0) =>
                  Evaluate(close, entries, exits, fee, init_cash) =
                      RMul(Val(stats_out).total_return, Num(100))

\* stats() has reported a run with a fee and slippage 0 that entered on the first bar,
\* closed a trade and ended with a total return other than 0
C30_Witness ==
    /\ Reported
    /\ entries[1] /\ trades # << >> /\ trades[1].entry_date = 1
    /\ slippage = Num(0) /\ fee = Rat(1, 2)
    /\ Val(stats_out).total_return # Num(0)

====
